---- MODULE Spec2Model ----
(***************************************************************************)
(* Dashboard viewer of the IoT repository: the real-time sync engine       *)
(* (fetchAndRender and its triggers) and the threat popup engine           *)
(* (scanDomForThreat, createPopup, removePopup).                           *)
(*                                                                         *)
(* One action is one run of a JavaScript handler or of one continuation of *)
(* an async function between two awaits; the browser runs each of them to  *)
(* completion on a single thread.                                          *)
(***************************************************************************)
EXTENDS Integers, Sequences, FiniteSets, Bags, TLC

(* ------------------------------- bounds -------------------------------- *)
MaxDevices == 2     \* devices in the registry
MaxVer     == 2     \* registry versions (1 + number of registry changes)
MaxRefresh == 2     \* calls of fetchAndRender in one behaviour
MaxRequests == 1    \* user actions whose request is unanswered at one time
MaxUptime   == 24000 \* ms of uptime after which no new loop iteration is started

(* ------------------------------- texts --------------------------------- *)
\* A text is a sequence of characters, so that case folding and trimming
\* are computed character by character.
UpperChars == <<"A","B","C","D","E","F","G","H","I","J","K","L","M",
                "N","O","P","Q","R","S","T","U","V","W","X","Y","Z">>
LowerChars == <<"a","b","c","d","e","f","g","h","i","j","k","l","m",
                "n","o","p","q","r","s","t","u","v","w","x","y","z">>

UpperSet == {UpperChars[i] : i \in 1..Len(UpperChars)}

\* the lower-case letter of every upper-case letter
LowerOf ==
  [c \in UpperSet |-> LowerChars[CHOOSE i \in 1..Len(UpperChars) : UpperChars[i] = c]]

LowerChar(c) == IF c \in UpperSet THEN LowerOf[c] ELSE c

ToLower(s) == [i \in 1..Len(s) |-> LowerChar(s[i])]

RECURSIVE TrimLeft(_)
TrimLeft(s) ==
  IF s # <<>> /\ Head(s) = " " THEN TrimLeft(Tail(s)) ELSE s

RECURSIVE TrimRight(_)
TrimRight(s) ==
  IF s # <<>> /\ s[Len(s)] = " " THEN TrimRight(SubSeq(s, 1, Len(s) - 1)) ELSE s

\* String.prototype.trim
Trim(s) == TrimRight(TrimLeft(s))

\* s contains t as a contiguous run of characters
Contains(s, t) ==
  \E i \in 0..(Len(s) - Len(t)) : SubSeq(s, i + 1, i + Len(t)) = t

\* the two labels the scripts compare with
THREAT_DETECTED == "Threat Detected"
NO_THREAT       == "No Threat"

\* other threat labels the registry may hold
LowerNoThreat == "no threat"
LongThreat    == "Threat Detected nearby"
PaddedThreat  == " THREAT DETECTED "

\* The characters of the texts that occur on the page.
CharsOf ==
  (THREAT_DETECTED :> <<"T","h","r","e","a","t"," ","D","e","t","e","c","t","e","d">>)
  @@ (NO_THREAT :> <<"N","o"," ","T","h","r","e","a","t">>)
  @@ (LowerNoThreat :> <<"n","o"," ","t","h","r","e","a","t">>)
  @@ (LongThreat :> <<"T","h","r","e","a","t"," ","D","e","t","e","c","t","e","d",
                      " ","n","e","a","r","b","y">>)
  @@ (PaddedThreat :> <<" ","T","H","R","E","A","T"," ","D","E","T","E","C","T",
                        "E","D"," ">>)

(* ------------------------------ registry ------------------------------- *)
Ids == 1..MaxDevices

Device(i, p, t) == [id |-> i, power |-> p, threat |-> t]

\* collections the registry may hold when the page is opened
InitCollections ==
  { <<>>,
    << Device(1, 1, NO_THREAT), Device(2, 0, THREAT_DETECTED) >>,
    << Device(1, 1, LowerNoThreat), Device(2, 1, LowerNoThreat) >>,
    << Device(1, 0, LongThreat), Device(2, 1, LowerNoThreat) >>,
    << Device(1, 1, PaddedThreat) >> }

\* payloads a device_update event may carry
Payloads ==
  { [device_id |-> 1, threat |-> THREAT_DETECTED],
    [device_id |-> 2, threat |-> NO_THREAT] }

VARIABLES
  registry,     \* the device collection held by the backend
  regVer,       \* how many states the registry has been in so far
  summary,      \* #status-summary: <<>> until rendered, then <<online, offline, threats>>
  grid,         \* #device-grid: the sequence of rendered device cards
  popup,        \* the elements with id 'threat-popup' in document.body, in order
  inflight,     \* the calls of fetchAndRender that have not finished (a bag)
  nCalls,       \* number of calls of fetchAndRender so far
  socketState,  \* "null" (io() threw), "connecting", "connected", "connect_error"
  polling,      \* TRUE when setInterval(fetchAndRender, 3000) has been registered
  obsPending,   \* a MutationObserver notification of #device-grid is queued
  lastRender,   \* the last fetch result that was rendered, and the page as that render left it
  eventVer,     \* registry version when the last device_update arrived (0: none)
  requests,     \* the requests of user actions that have not been answered (a bag)
  \* the edge telemetry client (ESP8266 sketch)
  pc,               \* where the sketch is: "off", "setup", "loop", "send", "wait", "format", "post"
  uptime,           \* real time in ms since the first state of the behaviour
  clock,            \* millis(): an unsigned 32-bit counter, as 16-bit halves
  wifi,             \* "IDLE" (no attempt), "CONNECTING" (WiFi.begin pending), "CONNECTED"
  attemptAt,        \* uptime at the last call of WiFi.begin (-1: none yet)
  lastWifiAttempt,  \* the global of the same name
  lastSend,         \* the global of the same name
  wallClock,        \* what time(nullptr) returns, in seconds
  now,              \* the local 'now' of getIsoTimestamp
  waitStart,        \* the local 'start' of the wait loop of getIsoTimestamp
  stamp,            \* the last string returned by getIsoTimestamp
  firmware,         \* which of the two sketches of the repository runs
  latency,          \* ms the network needs to accept a connection (NoNetwork: it never does)
  tally             \* send ticks and submission requests since the first state, the
                    \* last line the send block has printed on Serial, and the
                    \* uptime at the last send tick (-1: none yet)

viewVars == << registry, regVer, summary, grid, popup, inflight, nCalls,
               socketState, polling, obsPending, lastRender, eventVer, requests >>

edgeVars == << pc, uptime, clock, wifi, attemptAt, lastWifiAttempt, lastSend, wallClock,
               now, waitStart, stamp, firmware, latency, tally >>

vars == << viewVars, edgeVars >>

\* registry version of the rendered snapshot (0: nothing rendered)
shownVer == lastRender.ver

(* ------------------------------ rendering ------------------------------ *)
\* renderSummary counts with forEach: power is truthy, and threat === "Threat Detected"
renderSummary(devices) ==
  << Len(SelectSeq(devices, LAMBDA d : d.power # 0)),
     Len(SelectSeq(devices, LAMBDA d : d.power = 0)),
     Len(SelectSeq(devices, LAMBDA d : d.threat = THREAT_DETECTED)) >>

\* the text of the third badge of the summary: `${threats} Threat Detected`
Digits == <<"0","1","2","3","4","5","6","7","8","9">>
SummaryThreatText(s) == << Digits[s[3] + 1], " " >> \o CharsOf[THREAT_DETECTED]

threatClass(threat) == IF threat = NO_THREAT THEN "no-threat" ELSE "threat"

Card(device) ==
  [ id          |-> device.id,
    isPowerOn   |-> device.power # 0,
    threatClass |-> threatClass(device.threat),
    threat      |-> device.threat ]

RenderCards(devices) == [i \in 1..Len(devices) |-> Card(devices[i])]

ClearGrid(g) == <<>>

\* the render loop without 'deviceGrid.innerHTML = ""' before it
renderGridAppend(g, devices) == g \o RenderCards(devices)

renderGrid(g, devices) == ClearGrid(g) \o RenderCards(devices)

(* ---------------------------- threat popup ----------------------------- *)
DEFAULT_TEXT   == "Potential malicious activity detected"
SIMULATED_TEXT == "Simulated threat for testing"
HelperMsgs     == {""}

\* removePopup that leaves the element in place
removePopupKeeps(pop) == pop

\* getElementById returns the first element with the id; it is removed
removePopup(pop) == IF pop # <<>> THEN Tail(pop) ELSE pop

\* createPopup without its call of removePopup
createPopupNoRemove(pop, text) ==
  Append(pop, [text |-> IF text = "" THEN DEFAULT_TEXT ELSE text])

createPopup(pop, text) ==
  Append(removePopup(pop), [text |-> IF text = "" THEN DEFAULT_TEXT ELSE text])

\* a popup appended as a child of the device grid
PopupParentInGrid == "device-grid"

\* the element createPopup appends the popup to: document.body
PopupParent == "body"

\* obs.observe(deviceGrid, { childList, subtree, characterData }): the
\* observer is notified of nodes removed from or added to #device-grid
Observed(parent) == parent = "device-grid"

\* A call of removePopup or createPopup that went from popup pop to popup
\* pop2 has removed a popup (pop was there) or appended one (pop2 is there);
\* the observer hears of it when the popup's parent is observed.
PopupNotifies(pop, pop2) ==
  Observed(PopupParent) /\ (pop # <<>> \/ pop2 # <<>>)

\* innerText of a rendered <p>: leading and trailing white space is not rendered
InnerText(raw) == Trim(raw)

\* /^Threat Detected$/i.test(txt): the whole text, character by character,
\* letters compared without regard to case
SentinelFolded == ToLower(CharsOf[THREAT_DETECTED])
MatchesSentinel(txt) ==
  /\ Len(txt) = Len(SentinelFolded)
  /\ \A i \in 1..Len(txt) : LowerChar(txt[i]) = SentinelFolded[i]

\* The elements of the page that carry text a scan could read: the third
\* badge of #status-summary and the threat paragraph of every card.
PageNodes(s, g) ==
  (IF s = <<>> THEN <<>>
   ELSE << [within |-> "status-summary", class |-> "badge bg-danger",
            text |-> SummaryThreatText(s)] >>)
  \o [i \in 1..Len(g) |->
        [within |-> "device-grid", class |-> g[i].threatClass,
         text |-> CharsOf[g[i].threat]]]

\* document.querySelectorAll('#device-grid .threat')
ThreatNodes(s, g) ==
  SelectSeq(PageNodes(s, g),
            LAMBDA n : n.within = "device-grid" /\ n.class = "threat")

\* a scan of every text of the page for the phrase, as a substring
existsThreatDetectedInPage(s, g) ==
  \E i \in 1..Len(PageNodes(s, g)) :
     Contains(ToLower(PageNodes(s, g)[i].text), SentinelFolded)

existsThreatDetectedInCards(s, g) ==
  \E i \in 1..Len(ThreatNodes(s, g)) :
     MatchesSentinel(Trim(InnerText(ThreatNodes(s, g)[i].text)))

scanDomForThreat(pop, s, g) ==
  IF existsThreatDetectedInCards(s, g) THEN createPopup(pop, "") ELSE removePopup(pop)

(* --------------------------- fetchAndRender ---------------------------- *)
NoBody == [kind |-> "none", devices |-> <<>>, ver |-> 0]

\* what the backend answers: the device collection, or anything else
BodyKinds == {"collection", "other"}

\* fetchAndRender with the scan run before the page is rendered
RefreshRenderScanFirst(s, g, pop, body) ==
  IF body.kind # "collection"
  THEN [summary |-> s, grid |-> g, popup |-> pop]
  ELSE [summary |-> renderSummary(body.devices),
        grid    |-> renderGrid(g, body.devices),
        popup   |-> scanDomForThreat(pop, s, g)]

\* The part of fetchAndRender after 'await response.json()', run on the
\* parsed body.  A body that is not a collection makes devices.forEach throw
\* inside renderSummary, before anything is written to the page.
RefreshRender(s, g, pop, body) ==
  IF body.kind # "collection"
  THEN [summary |-> s, grid |-> g, popup |-> pop]
  ELSE LET s1 == renderSummary(body.devices)
           g1 == renderGrid(g, body.devices)
           p1 == scanDomForThreat(pop, s1, g1)
       IN  [summary |-> s1, grid |-> g1, popup |-> p1]

\* a catch block that clears the page
CatchFetchErrorClears(s, g, pop) == [summary |-> <<>>, grid |-> <<>>, popup |-> <<>>]

\* the catch block of fetchAndRender: console.error only
CatchFetchError(s, g, pop) == [summary |-> s, grid |-> g, popup |-> pop]

\* fetchAndRender takes no argument and keeps no state of its own: a call in
\* flight is where it waits and, once fetch() has resolved, the response
Waiting == [pc |-> "fetch", body |-> NoBody]

InFlight == BagToSet(inflight)
Put(B, r)  == B (+) SetToBag({r})
Take(B, r) == B (-) SetToBag({r})

\* a call of fetchAndRender up to its first await
StartRefresh ==
  /\ nCalls < MaxRefresh
  /\ inflight' = Put(inflight, Waiting)
  /\ nCalls' = nCalls + 1

\* fetch() resolves: the backend has answered with the registry as it is now
FetchResolve(r, kind) ==
  /\ ~obsPending
  /\ r \in InFlight /\ r.pc = "fetch"
  /\ inflight' = Put(Take(inflight, r),
                     [pc |-> "json",
                      body |-> [kind |-> kind,
                                devices |-> IF kind = "collection" THEN registry ELSE <<>>,
                                ver |-> regVer]])
  /\ UNCHANGED << requests, edgeVars, registry, regVer, summary, grid, popup, nCalls, socketState,
                  polling, obsPending, lastRender, eventVer >>

\* fetch() rejects (transport error): the catch block runs
FetchReject(r) ==
  /\ ~obsPending
  /\ r \in InFlight /\ r.pc = "fetch"
  /\ inflight' = Take(inflight, r)
  /\ LET out == CatchFetchError(summary, grid, popup) IN
       /\ summary' = out.summary
       /\ grid' = out.grid
       /\ popup' = out.popup
  /\ UNCHANGED << requests, edgeVars, registry, regVer, nCalls, socketState, polling, obsPending,
                  lastRender, eventVer >>

\* response.json() rejects (the body is not JSON): the catch block runs
JsonReject(r) ==
  /\ ~obsPending
  /\ r \in InFlight /\ r.pc = "json" /\ r.body.kind = "other"
  /\ inflight' = Take(inflight, r)
  /\ LET out == CatchFetchError(summary, grid, popup) IN
       /\ summary' = out.summary
       /\ grid' = out.grid
       /\ popup' = out.popup
  /\ UNCHANGED << requests, edgeVars, registry, regVer, nCalls, socketState, polling, obsPending,
                  lastRender, eventVer >>

\* response.json() resolves: the rest of fetchAndRender runs to its end
JsonResolve(r) ==
  /\ ~obsPending
  /\ r \in InFlight /\ r.pc = "json"
  /\ inflight' = Take(inflight, r)
  /\ UNCHANGED << requests, edgeVars, registry, regVer, nCalls, socketState, polling, eventVer >>
  /\ LET out == RefreshRender(summary, grid, popup, r.body)
         ok  == r.body.kind = "collection"
     IN
       /\ summary' = out.summary
       /\ grid' = out.grid
       /\ popup' = out.popup
       \* the observer is notified when children were removed or added
       /\ obsPending' = (ok /\ (\/ grid # <<>>
                                \/ r.body.devices # <<>>
                                \/ PopupNotifies(popup, out.popup)))
       /\ lastRender' = IF ok
                        THEN [valid |-> TRUE, devices |-> r.body.devices,
                              ver |-> r.body.ver,
                              summary |-> out.summary, grid |-> out.grid,
                              popup |-> out.popup,
                              repeat |-> (lastRender.valid /\
                                          lastRender.devices = r.body.devices)]
                        ELSE lastRender

(* ------------------------- popup trigger sources ----------------------- *)
\* the MutationObserver callback of #device-grid; it runs as a microtask,
\* before any other handler
ObserverCallback ==
  /\ obsPending
  /\ obsPending' = PopupNotifies(popup, scanDomForThreat(popup, summary, grid))
  /\ UNCHANGED << requests, edgeVars, registry, regVer, summary, grid, inflight, nCalls, socketState,
                  polling, lastRender, eventVer >>
  /\ popup' = scanDomForThreat(popup, summary, grid)

\* scanDomForThreat entered from outside a refresh: the window 'load'
\* listener, or a direct call of the global window.scanDomForThreat
ScanCall ==
  /\ ~obsPending
  /\ UNCHANGED << requests, edgeVars, registry, regVer, summary, grid, inflight, nCalls, socketState,
                  polling, lastRender, eventVer >>
  /\ obsPending' = PopupNotifies(popup, scanDomForThreat(popup, summary, grid))
  /\ popup' = scanDomForThreat(popup, summary, grid)

\* window.__triggerThreatPopupForTest(msg)
TriggerThreatPopupForTest(msg) ==
  /\ ~obsPending
  /\ popup' = createPopup(popup, IF msg = "" THEN SIMULATED_TEXT ELSE msg)
  /\ obsPending' = PopupNotifies(popup, popup')
  /\ UNCHANGED << requests, edgeVars, registry, regVer, summary, grid, inflight, nCalls, socketState,
                  polling, lastRender, eventVer >>

\* window.__removeThreatPopup()
RemoveThreatPopup ==
  /\ ~obsPending
  /\ popup' = removePopup(popup)
  /\ obsPending' = PopupNotifies(popup, popup')
  /\ UNCHANGED << requests, edgeVars, registry, regVer, summary, grid, inflight, nCalls, socketState,
                  polling, lastRender, eventVer >>

(* ------------------------------ push channel --------------------------- *)
\* what the script registers when io() returns, and when it throws
SocketInit(ioThrows) ==
  IF ioThrows THEN [socketState |-> "null", polling |-> TRUE]
              ELSE [socketState |-> "connecting", polling |-> FALSE]

\* socket.on("connect"): console.log only
SocketConnect ==
  /\ ~obsPending
  /\ socketState \in {"connecting", "connect_error"}
  /\ socketState' = "connected"
  /\ UNCHANGED << requests, edgeVars, registry, regVer, summary, grid, popup, inflight, nCalls,
                  polling, obsPending, lastRender, eventVer >>

\* socket.on("connect_error"): console.error only
SocketConnectError ==
  /\ ~obsPending
  /\ socketState \in {"connecting", "connect_error"}
  /\ socketState' = "connect_error"
  /\ UNCHANGED << requests, edgeVars, registry, regVer, summary, grid, popup, inflight, nCalls,
                  polling, obsPending, lastRender, eventVer >>

\* a device_update listener that patches the card named by the payload
DeviceUpdateApplies(payload) ==
  /\ ~obsPending
  /\ socketState = "connected"
  /\ StartRefresh
  /\ eventVer' = regVer
  /\ grid' = [i \in 1..Len(grid) |->
               IF grid[i].id = payload.device_id
               THEN [grid[i] EXCEPT !.threat = payload.threat,
                                    !.threatClass = threatClass(payload.threat)]
               ELSE grid[i]]
  /\ UNCHANGED << requests, edgeVars, registry, regVer, summary, popup, socketState, polling,
                  obsPending, lastRender >>

\* socket.on("device_update", payload)
DeviceUpdate(payload) ==
  /\ ~obsPending
  /\ socketState = "connected"
  /\ StartRefresh
  /\ eventVer' = regVer
  /\ UNCHANGED << requests, edgeVars, registry, regVer, summary, grid, popup, socketState, polling,
                  obsPending, lastRender >>

\* a tick of setInterval(fetchAndRender, 3000)
PollTick ==
  /\ ~obsPending
  /\ polling
  /\ StartRefresh
  /\ UNCHANGED << requests, edgeVars, registry, regVer, summary, grid, popup, socketState, polling,
                  obsPending, lastRender, eventVer >>

\* the call of fetchAndRender that ends togglePower, deleteDevice, the
\* add-device listener and the emergency-check listener, once their request
\* has been answered
UserRefresh ==
  /\ ~obsPending
  /\ StartRefresh
  /\ UNCHANGED << requests, edgeVars, registry, regVer, summary, grid, popup, socketState, polling,
                  obsPending, lastRender, eventVer >>

(* ------------------------------- registry ------------------------------ *)
\* the labels the backend's analysis writes
AnalysisLabels == {THREAT_DETECTED, NO_THREAT}

HasId(devices, id) == \E k \in 1..Len(devices) : devices[k].id = id

FreeId(devices) == CHOOSE i \in Ids : ~HasId(devices, i)

\* What the backend does to the collection on a request of this viewer or
\* of any other client: toggle power, delete, create, relabel.
Toggled(devices, id) ==
  [k \in 1..Len(devices) |->
     IF devices[k].id = id
     THEN [devices[k] EXCEPT !.power = 1 - devices[k].power]
     ELSE devices[k]]

Deleted(devices, id) == SelectSeq(devices, LAMBDA d : d.id # id)

Created(devices) == Append(devices, Device(FreeId(devices), 0, NO_THREAT))

Relabelled(devices, id, t) ==
  [k \in 1..Len(devices) |->
     IF devices[k].id = id THEN [devices[k] EXCEPT !.threat = t] ELSE devices[k]]

RegistryBecomes(new) ==
  /\ regVer < MaxVer
  /\ new # registry
  /\ registry' = new
  /\ regVer' = regVer + 1
  /\ UNCHANGED << requests, edgeVars, summary, grid, popup, inflight, nCalls, socketState, polling,
                  obsPending, lastRender, eventVer >>

TogglePower(id) == HasId(registry, id) /\ RegistryBecomes(Toggled(registry, id))

DeleteDevice(id) == HasId(registry, id) /\ RegistryBecomes(Deleted(registry, id))

CreateDevice == Len(registry) < MaxDevices /\ RegistryBecomes(Created(registry))

AnalysisUpdate(id, t) ==
  HasId(registry, id) /\ RegistryBecomes(Relabelled(registry, id, t))

(* ------------------------------ user actions -------------------------- *)
\* togglePower, deleteDevice and the add-device listener have one shape:
\* await fetch(<request>); fetchAndRender();  with no try/catch around it.
UserOps == {"toggle", "delete", "add"}

Request(op, id) == [op |-> op, id |-> id, answered |-> FALSE]

Requests == BagToSet(requests)

\* ids of the cards on the page, whose buttons the user can press
ShownIds == {grid[i].id : i \in 1..Len(grid)}

\* the handler up to its await: the request is sent
SendRequest(op, id) ==
  /\ ~obsPending
  /\ BagCardinality(requests) < MaxRequests
  /\ requests' = Put(requests, Request(op, id))
  /\ UNCHANGED << registry, regVer, summary, grid, popup, inflight, nCalls,
                  socketState, polling, obsPending, lastRender, eventVer, edgeVars >>

\* onclick="togglePower(${device.id})"
togglePower(id) == id \in ShownIds /\ SendRequest("toggle", id)

\* onclick="deleteDevice(${device.id})", the confirm dialog answered with OK
deleteDevice(id) == id \in ShownIds /\ SendRequest("delete", id)

\* the click listener of #add-device
addDevice == SendRequest("add", 0)

\* what the backend makes of the collection when it handles the request
Handled(devices, q) ==
  CASE q.op = "toggle" -> Toggled(devices, q.id)
    [] q.op = "delete" -> Deleted(devices, q.id)
    [] q.op = "add"    -> IF Len(devices) < MaxDevices THEN Created(devices)
                          ELSE devices

\* the backend handles the request of a user action
BackendHandles(q) ==
  /\ q \in Requests /\ ~q.answered
  /\ LET new == Handled(registry, q) IN
       /\ new # registry => regVer < MaxVer
       /\ registry' = new
       /\ regVer' = IF new # registry THEN regVer + 1 ELSE regVer
  /\ requests' = Put(Take(requests, q), [q EXCEPT !.answered = TRUE])
  /\ UNCHANGED << summary, grid, popup, inflight, nCalls, socketState, polling,
                  obsPending, lastRender, eventVer, edgeVars >>

\* the awaited fetch resolves (whatever the HTTP status): the handler goes on
\* and calls fetchAndRender
ActionResolve(q) ==
  /\ ~obsPending
  /\ q \in Requests /\ q.answered
  /\ requests' = Take(requests, q)
  /\ StartRefresh
  /\ UNCHANGED << registry, regVer, summary, grid, popup, socketState, polling,
                  obsPending, lastRender, eventVer, edgeVars >>

\* the awaited fetch rejects (the backend cannot be reached, or the answer is
\* lost): the await throws, nothing catches it, the handler ends there
ActionReject(q) ==
  /\ ~obsPending
  /\ q \in Requests
  /\ requests' = Take(requests, q)
  /\ UNCHANGED << registry, regVer, summary, grid, popup, inflight, nCalls,
                  socketState, polling, obsPending, lastRender, eventVer, edgeVars >>

(* --------------------- edge client: numbers and texts ------------------ *)
\* the intervals of the sketch, in ms
WIFI_RECONNECT_INTERVAL_MS == 5000
SEND_INTERVAL_MS           == 5000
CONNECT_TIMEOUT_MS         == 10000   \* setupWiFi: millis() - start > 10000
CONNECT_POLL_MS            == 150     \* setupWiFi: delay(150)
SYNC_WAIT_MS               == 2000    \* getIsoTimestamp: millis() - start < 2000
SYNC_POLL_MS               == 200     \* getIsoTimestamp: delay(200)
LOOP_DELAY_MS              == 10      \* loop: delay(10)
TIME_THRESHOLD             == 1000    \* getIsoTimestamp: now <= 1000

\* unsigned long is 32 bits wide; a value is kept as its two 16-bit halves
Half == 65536

U32(hi, lo) == [hi |-> hi, lo |-> lo]

Zero32 == U32(0, 0)

\* the unsigned long of a number below 2^31
ToU32(n) == U32(n \div Half, n % Half)

\* v + d in unsigned 32-bit arithmetic, d a number below 2^31
Plus(v, d) ==
  LET low == v.lo + (d % Half)
      high == v.hi + (d \div Half) + (low \div Half)
  IN  U32(high % Half, low % Half)

\* a - b as a difference that does not wrap: 0 when b is above a
MinusNoWrap(a, b) ==
  IF a.hi < b.hi \/ (a.hi = b.hi /\ a.lo < b.lo) THEN U32(0, 0)
  ELSE LET low == a.lo - b.lo
           high == a.hi - b.hi + (low \div Half)
       IN  U32(high % Half, low % Half)

\* a - b in unsigned 32-bit arithmetic
Minus(a, b) ==
  LET low == a.lo - b.lo
      high == a.hi - b.hi + (low \div Half)
  IN  U32(high % Half, low % Half)

\* v < n, n a number below 2^31
Below(v, n) == v.hi < 32768 /\ v.hi * Half + v.lo < n

\* v / 1000 in unsigned arithmetic (65536 = 65 * 1000 + 536)
DivThousand(v) == v.hi * 65 + ((v.hi * 536 + v.lo) \div 1000)

\* the decimal digits of a number, as String(n) and %lu print it
RECURSIVE Decimal(_)
Decimal(n) ==
  IF n < 10 THEN << Digits[n + 1] >>
  ELSE Decimal(n \div 10) \o << Digits[(n % 10) + 1] >>

\* String(millis()): the decimal digits of an unsigned long
RECURSIVE DecimalParts(_, _)
DecimalParts(high, low) ==
  \* high * 1000 + low, low < 1000
  IF high = 0 THEN Decimal(low)
  ELSE Decimal(high) \o << Digits[(low \div 100) + 1],
                           Digits[((low \div 10) % 10) + 1],
                           Digits[(low % 10) + 1] >>

Decimal32(v) == DecimalParts(DivThousand(v), (v.hi * 536 + v.lo) % 1000)

\* %02lu and %02d: at least two digits, padded with zeros
Pad2(n) == IF n < 10 THEN << "0", Digits[n + 1] >> ELSE Decimal(n)

\* %Y of strftime for the years of the model
Pad4(n) ==
  IF n < 10 THEN << "0", "0", "0" >> \o Decimal(n)
  ELSE IF n < 100 THEN << "0", "0" >> \o Decimal(n)
  ELSE IF n < 1000 THEN << "0" >> \o Decimal(n)
  ELSE Decimal(n)

\* a fallback branch that prints the hours of uptime as they are
FallbackStampAllHours(ms) ==
  LET sec == DivThousand(ms)
      hh == sec \div 3600
      mm == (sec \div 60) % 60
      ss == sec % 60
  IN  << "1","9","7","0","-","0","1","-","0","1","T" >>
      \o Pad2(hh) \o << ":" >> \o Pad2(mm) \o << ":" >> \o Pad2(ss)

\* the fallback branch of getIsoTimestamp, from ms = millis()
FallbackStamp(ms) ==
  LET sec == DivThousand(ms)
      hh == (sec \div 3600) % 24
      mm == (sec \div 60) % 60
      ss == sec % 60
  IN  << "1","9","7","0","-","0","1","-","0","1","T" >>
      \o Pad2(hh) \o << ":" >> \o Pad2(mm) \o << ":" >> \o Pad2(ss)

\* gmtime_r: the calendar date and time of day of an epoch second
GmTime(t) ==
  LET days == t \div 86400
      rest == t % 86400
      z    == days + 719468
      era  == z \div 146097
      doe  == z - era * 146097
      yoe  == (doe - (doe \div 1460) + (doe \div 36524) - (doe \div 146096)) \div 365
      doy  == doe - (365 * yoe + (yoe \div 4) - (yoe \div 100))
      mp   == (5 * doy + 2) \div 153
      mon  == IF mp < 10 THEN mp + 3 ELSE mp - 9
  IN  [ year |-> yoe + era * 400 + (IF mon <= 2 THEN 1 ELSE 0),
        mon  |-> mon,
        mday |-> doy - ((153 * mp + 2) \div 5) + 1,
        hour |-> rest \div 3600,
        min  |-> (rest \div 60) % 60,
        sec  |-> rest % 60 ]

\* strftime(buf, sizeof(buf), "%Y-%m-%dT%H:%M:%S", &timeinfo)
StrfTime(tm) ==
  Pad4(tm.year) \o << "-" >> \o Pad2(tm.mon) \o << "-" >> \o Pad2(tm.mday)
  \o << "T" >> \o Pad2(tm.hour) \o << ":" >> \o Pad2(tm.min)
  \o << ":" >> \o Pad2(tm.sec)

\* no access point accepts the client
NoNetwork == 0 - 1

(* ----------------------- edge client: the sketch ----------------------- *)
\* One action is one stretch of the sketch between two points at which it
\* reads the outside world (WiFi.status(), time(), the sensor, millis()).
Firmwares == {"part_001", "part_002"}

\* millis() when setup() calls WiFi.begin
BootTimes == {30}

\* what the network may be like
Latencies == {900, 6000, NoNetwork}

\* values of time() once the clock has been set over the network
Epochs == {1700000000}

\* ms a POST takes
POST_MS == 300

\* consecutive loop iterations without any effect that one step may cover
IdleRun == 250

Advance(d) == uptime' = uptime + d /\ clock' = Plus(clock, d)

NoTally == [ticks |-> 0, posts |-> 0, last |-> "", at |-> 0 - 1]

\* the send block is entered
Tick(t) == [t EXCEPT !.ticks = @ + 1, !.at = uptime]

\* Serial.println / Serial.printf of the send block
Said(t, line) == [t EXCEPT !.last = line]

\* the network accepts the pending attempt once it is old enough
Accepted(age) == latency # NoNetwork /\ age >= latency

\* setup(): dht.begin(), setupWiFi(), setupTime()
setupWiFi ==
  /\ pc = "setup"
  /\ LET \* the passes of the while loop: delay(150), then the two exits
         Polls == 1..((CONNECT_TIMEOUT_MS \div CONNECT_POLL_MS) + 1)
         Ends(k) == \/ k * CONNECT_POLL_MS > CONNECT_TIMEOUT_MS
                    \/ Accepted(k * CONNECT_POLL_MS)
         n == CHOOSE k \in Polls : Ends(k) /\ \A j \in 1..(k - 1) : ~Ends(j)
     IN  /\ Advance(n * CONNECT_POLL_MS)
         /\ wifi' = IF Accepted(n * CONNECT_POLL_MS) THEN "CONNECTED"
                    ELSE "CONNECTING"
  /\ attemptAt' = uptime
  /\ pc' = "loop"
  /\ UNCHANGED << viewVars, lastWifiAttempt, lastSend, wallClock, now, waitStart,
                  stamp, firmware, latency, tally >>

\* the two interval tests of loop(), in unsigned arithmetic
ReconnectDue ==
  /\ wifi # "CONNECTED"
  /\ ~Below(Minus(clock, lastWifiAttempt), WIFI_RECONNECT_INTERVAL_MS)

SendDue == ~Below(Minus(clock, lastSend), SEND_INTERVAL_MS)

\* ms until the next of the two tests succeeds, when none does now
UntilDue ==
  LET send == SEND_INTERVAL_MS - (Minus(clock, lastSend).lo)
      conn == WIFI_RECONNECT_INTERVAL_MS - (Minus(clock, lastWifiAttempt).lo)
  IN  IF wifi # "CONNECTED" /\ conn < send THEN conn ELSE send

\* a run of calls of loop() in which reconnectIfNeeded returns at once and
\* the send block is not entered: only delay(10) happens
IdleIterations ==
  /\ pc = "loop"
  /\ uptime < MaxUptime
  /\ ~ReconnectDue /\ ~SendDue
  /\ LET toDue == (UntilDue + LOOP_DELAY_MS - 1) \div LOOP_DELAY_MS
         k == IF toDue < IdleRun THEN toDue ELSE IdleRun
     IN  Advance(k * LOOP_DELAY_MS)
  /\ UNCHANGED << viewVars, pc, wifi, attemptAt, lastWifiAttempt, lastSend,
                  wallClock, now, waitStart, stamp, firmware, latency, tally >>

\* reconnectIfNeeded(), at the start of a call of loop() that does something
reconnectIfNeeded ==
  /\ pc = "loop"
  /\ uptime < MaxUptime
  /\ ReconnectDue \/ SendDue
  /\ IF ReconnectDue
     THEN /\ lastWifiAttempt' = clock
          \* WiFi.disconnect(); WiFi.begin(ssid, password);
          /\ wifi' = "CONNECTING"
          /\ attemptAt' = uptime
     ELSE UNCHANGED << lastWifiAttempt, wifi, attemptAt >>
  /\ pc' = "send"
  /\ UNCHANGED << viewVars, uptime, clock, lastSend, wallClock, now, waitStart,
                  stamp, firmware, latency, tally >>

\* the rest of loop() when the send interval has not elapsed: delay(10)
SendNotDue ==
  /\ pc = "send"
  /\ ~SendDue
  /\ Advance(LOOP_DELAY_MS)
  /\ pc' = "loop"
  /\ UNCHANGED << viewVars, wifi, attemptAt, lastWifiAttempt, lastSend, wallClock,
                  now, waitStart, stamp, firmware, latency, tally >>

\* a send tick without connection: "WiFi not connected. Skipping."
SkipTick ==
  /\ pc = "send"
  /\ SendDue
  /\ wifi # "CONNECTED"
  /\ lastSend' = clock
  /\ tally' = Said(Tick(tally), "WiFi not connected. Skipping.")
  /\ Advance(LOOP_DELAY_MS)
  /\ pc' = "loop"
  /\ UNCHANGED << viewVars, wifi, attemptAt, lastWifiAttempt, wallClock, now,
                  waitStart, stamp, firmware, latency >>

\* a send block that calls sendSensorData() without looking at WiFi.status()
ReadTickAnyLink(valid) ==
  /\ pc = "send"
  /\ SendDue
  /\ lastSend' = clock
  /\ IF ~valid
     THEN /\ tally' = Said(Tick(tally), "DHT read failed.")
          /\ Advance(LOOP_DELAY_MS)
          /\ pc' = "loop"
          /\ UNCHANGED << now, waitStart >>
     ELSE /\ tally' = Tick(tally)
          /\ now' = wallClock
          /\ IF firmware = "part_001" /\ wallClock <= TIME_THRESHOLD
             THEN waitStart' = clock /\ pc' = "wait"
             ELSE waitStart' = waitStart /\ pc' = "format"
          /\ UNCHANGED << uptime, clock >>
  /\ UNCHANGED << viewVars, wifi, attemptAt, lastWifiAttempt, wallClock, stamp,
                  firmware, latency >>

\* a sendSensorData() without the isnan test
ReadTickNoCheck(valid) ==
  /\ pc = "send"
  /\ SendDue
  /\ wifi = "CONNECTED"
  /\ lastSend' = clock
  /\ tally' = Tick(tally)
  /\ now' = wallClock
  /\ IF firmware = "part_001" /\ wallClock <= TIME_THRESHOLD
     THEN waitStart' = clock /\ pc' = "wait"
     ELSE waitStart' = waitStart /\ pc' = "format"
  /\ UNCHANGED << viewVars, uptime, clock, wifi, attemptAt, lastWifiAttempt,
                  wallClock, stamp, firmware, latency >>

\* a send tick with connection: sendSensorData() up to the first thing it
\* waits for; valid tells whether the sensor returned numbers
ReadTick(valid) ==
  /\ pc = "send"
  /\ SendDue
  /\ wifi = "CONNECTED"
  /\ lastSend' = clock
  /\ IF ~valid
     THEN \* "DHT read failed.": return, then delay(10)
          /\ tally' = Said(Tick(tally), "DHT read failed.")
          /\ Advance(LOOP_DELAY_MS)
          /\ pc' = "loop"
          /\ UNCHANGED << now, waitStart >>
     ELSE \* getIsoTimestamp(): now = time(nullptr)
          /\ tally' = Tick(tally)
          /\ now' = wallClock
          /\ IF firmware = "part_001" /\ wallClock <= TIME_THRESHOLD
             THEN waitStart' = clock /\ pc' = "wait"
             ELSE waitStart' = waitStart /\ pc' = "format"
          /\ UNCHANGED << uptime, clock >>
  /\ UNCHANGED << viewVars, wifi, attemptAt, lastWifiAttempt, wallClock, stamp,
                  firmware, latency >>

\* a wait loop without the test of the wait window
WaitPollForever ==
  /\ pc = "wait"
  /\ Advance(SYNC_POLL_MS)
  /\ now' = wallClock
  /\ pc' = IF wallClock > TIME_THRESHOLD THEN "format" ELSE "wait"
  /\ UNCHANGED << viewVars, wifi, attemptAt, lastWifiAttempt, lastSend, wallClock,
                  waitStart, stamp, firmware, latency, tally >>

\* one pass of the wait loop of getIsoTimestamp: delay(200); now = time()
WaitPoll ==
  /\ pc = "wait"
  /\ Below(Minus(clock, waitStart), SYNC_WAIT_MS)
  /\ Advance(SYNC_POLL_MS)
  /\ now' = wallClock
  /\ pc' = IF wallClock > TIME_THRESHOLD THEN "format" ELSE "wait"
  /\ UNCHANGED << viewVars, wifi, attemptAt, lastWifiAttempt, lastSend, wallClock,
                  waitStart, stamp, firmware, latency, tally >>

\* the wait loop ends because the wait window is over
WaitOver ==
  /\ pc = "wait"
  /\ ~Below(Minus(clock, waitStart), SYNC_WAIT_MS)
  /\ pc' = "format"
  /\ UNCHANGED << viewVars, uptime, clock, wifi, attemptAt, lastWifiAttempt,
                  lastSend, wallClock, now, waitStart, stamp, firmware, latency,
                  tally >>

\* what getIsoTimestamp returns, for the value of 'now' it ended up with
getIsoTimestamp(fw, t, ms) ==
  IF t <= TIME_THRESHOLD
  THEN IF fw = "part_001" THEN FallbackStamp(ms) ELSE Decimal32(ms)
  ELSE StrfTime(GmTime(t))

\* the end of getIsoTimestamp: the string is built
FormatStamp ==
  /\ pc = "format"
  /\ stamp' = getIsoTimestamp(firmware, now, clock)
  /\ pc' = "post"
  /\ UNCHANGED << viewVars, uptime, clock, wifi, attemptAt, lastWifiAttempt,
                  lastSend, wallClock, now, waitStart, firmware, latency, tally >>

\* how the submission can go: http.begin fails, POST returns code <= 0,
\* POST returns an HTTP status that is an error, or a success
PostOutcomes == {"begin_failed", "post_failed", "http_error", "http_ok"}

\* what sendSensorData prints about the submission
PostReport(outcome) ==
  CASE outcome = "begin_failed" -> "HTTP begin() FAILED"
    [] outcome = "post_failed"  -> "POST failed"
    [] outcome = "http_error"   -> "HTTP 500"
    [] outcome = "http_ok"      -> "HTTP 200"

\* a submission that is repeated until it succeeds
PostRetry(outcome) ==
  /\ pc = "post"
  /\ tally.posts < 8
  /\ IF outcome = "begin_failed"
     THEN /\ Advance(LOOP_DELAY_MS)
          /\ tally' = Said(tally, PostReport(outcome))
     ELSE /\ Advance(POST_MS + LOOP_DELAY_MS)
          /\ tally' = Said([tally EXCEPT !.posts = @ + 1], PostReport(outcome))
  /\ pc' = IF outcome = "http_ok" THEN "loop" ELSE "post"
  /\ UNCHANGED << viewVars, wifi, attemptAt, lastWifiAttempt, lastSend, wallClock,
                  now, waitStart, stamp, firmware, latency >>

\* the rest of sendSensorData (the JSON, http.begin, POST, http.end) and
\* the delay(10) that ends the call of loop()
Post(outcome) ==
  /\ pc = "post"
  /\ IF outcome = "begin_failed"
     THEN /\ Advance(LOOP_DELAY_MS)
          /\ tally' = Said(tally, PostReport(outcome))
     ELSE /\ Advance(POST_MS + LOOP_DELAY_MS)
          /\ tally' = Said([tally EXCEPT !.posts = @ + 1], PostReport(outcome))
  /\ pc' = "loop"
  /\ UNCHANGED << viewVars, wifi, attemptAt, lastWifiAttempt, lastSend, wallClock,
                  now, waitStart, stamp, firmware, latency >>

\* the access point accepts the pending attempt
LinkUp ==
  /\ pc \notin {"off", "setup"}
  /\ wifi = "CONNECTING"
  /\ Accepted(uptime - attemptAt)
  /\ wifi' = "CONNECTED"
  /\ UNCHANGED << viewVars, pc, uptime, clock, attemptAt, lastWifiAttempt, lastSend,
                  wallClock, now, waitStart, stamp, firmware, latency, tally >>

\* the connection drops
LinkDown ==
  /\ pc \notin {"off", "setup"}
  /\ wifi = "CONNECTED"
  /\ wifi' = "IDLE"
  /\ UNCHANGED << viewVars, pc, uptime, clock, attemptAt, lastWifiAttempt, lastSend,
                  wallClock, now, waitStart, stamp, firmware, latency, tally >>

\* the time configured by setupTime() arrives from an NTP server
NtpSync(epoch) ==
  /\ pc \notin {"off", "setup"}
  /\ wifi = "CONNECTED"
  /\ wallClock <= TIME_THRESHOLD
  /\ wallClock' = epoch
  /\ UNCHANGED << viewVars, pc, uptime, clock, wifi, attemptAt, lastWifiAttempt,
                  lastSend, now, waitStart, stamp, firmware, latency, tally >>

(* ------------------------------ specification -------------------------- *)
\* the edge client is not part of the viewer's specifications: it stays off
EdgeOff ==
  /\ pc = "off"
  /\ uptime = 0
  /\ clock = Zero32
  /\ wifi = "IDLE"
  /\ attemptAt = -1
  /\ lastWifiAttempt = Zero32
  /\ lastSend = Zero32
  /\ wallClock = 0
  /\ now = 0
  /\ waitStart = Zero32
  /\ stamp = <<>>
  /\ firmware = "part_001"
  /\ latency = NoNetwork
  /\ tally = NoTally

\* The state when the script has run to its end: the socket is set up, the
\* initial call of fetchAndRender is waiting for its fetch, the page is empty.
Init ==
  /\ registry \in InitCollections
  /\ regVer = 1
  /\ summary = <<>>
  /\ grid = <<>>
  /\ popup = <<>>
  /\ inflight = SetToBag({Waiting})
  /\ nCalls = 1
  /\ \E ioThrows \in BOOLEAN :
        /\ socketState = SocketInit(ioThrows).socketState
        /\ polling = SocketInit(ioThrows).polling
  /\ obsPending = FALSE
  /\ lastRender = [valid |-> FALSE, devices |-> <<>>, ver |-> 0, summary |-> <<>>,
                   grid |-> <<>>, popup |-> <<>>, repeat |-> FALSE]
  /\ eventVer = 0
  /\ requests = EmptyBag
  /\ EdgeOff

Next ==
  \/ \E r \in InFlight, kind \in BodyKinds : FetchResolve(r, kind)
  \/ \E r \in InFlight : FetchReject(r)
  \/ \E r \in InFlight : JsonReject(r)
  \/ \E r \in InFlight : JsonResolve(r)
  \/ ObserverCallback
  \/ ScanCall
  \/ \E msg \in HelperMsgs : TriggerThreatPopupForTest(msg)
  \/ RemoveThreatPopup
  \/ SocketConnect
  \/ SocketConnectError
  \/ \E payload \in Payloads : DeviceUpdate(payload)
  \/ PollTick
  \/ UserRefresh
  \/ \E id \in Ids : TogglePower(id)
  \/ \E id \in Ids : DeleteDevice(id)
  \/ CreateDevice
  \/ \E id \in Ids, t \in AnalysisLabels : AnalysisUpdate(id, t)

Spec == Init /\ [][Next]_vars

\* The refreshes and the scans alone: calls of fetchAndRender whose fetch
\* succeeds run to their end, with every way a scan or a popup helper is entered, while analysis
\* results change the labels in the registry.
NextScan ==
  \/ \E r \in InFlight : FetchResolve(r, "collection")
  \/ \E r \in InFlight : JsonResolve(r)
  \/ ObserverCallback
  \/ ScanCall
  \/ \E msg \in HelperMsgs : TriggerThreatPopupForTest(msg)
  \/ RemoveThreatPopup
  \/ UserRefresh
  \/ \E id \in Ids, t \in AnalysisLabels : AnalysisUpdate(id, t)

\* ... with a browser that runs a queued MutationObserver callback
FairScan == Init /\ [][NextScan]_vars /\ WF_vars(ObserverCallback)

\* The same program with a backend and a network that never fail: every
\* fetch resolves with the device collection and every body parses.
NextNoFault ==
  \/ \E r \in InFlight : FetchResolve(r, "collection")
  \/ \E r \in InFlight : JsonResolve(r)
  \/ ObserverCallback
  \/ ScanCall
  \/ \E msg \in HelperMsgs : TriggerThreatPopupForTest(msg)
  \/ RemoveThreatPopup
  \/ SocketConnect
  \/ SocketConnectError
  \/ \E payload \in Payloads : DeviceUpdate(payload)
  \/ PollTick
  \/ UserRefresh
  \/ \E id \in Ids : TogglePower(id)
  \/ \E id \in Ids : DeleteDevice(id)
  \/ CreateDevice
  \/ \E id \in Ids, t \in AnalysisLabels : AnalysisUpdate(id, t)

SpecNoFault == Init /\ [][NextNoFault]_vars

\* The viewer with its user: the refreshes are the initial one and those of
\* the user's actions, each action written out with its request.
NextUser ==
  \/ \E r \in InFlight, kind \in BodyKinds : FetchResolve(r, kind)
  \/ \E r \in InFlight : FetchReject(r)
  \/ \E r \in InFlight : JsonReject(r)
  \/ \E r \in InFlight : JsonResolve(r)
  \/ ObserverCallback
  \/ \E id \in Ids : togglePower(id)
  \/ \E id \in Ids : deleteDevice(id)
  \/ addDevice
  \/ \E q \in Requests : BackendHandles(q)
  \/ \E q \in Requests : ActionResolve(q)
  \/ \E q \in Requests : ActionReject(q)

SpecUser == Init /\ [][NextUser]_vars

\* the viewer is not part of the edge client's specifications: no page is open
ViewerOff ==
  /\ registry = <<>>
  /\ regVer = 1
  /\ summary = <<>>
  /\ grid = <<>>
  /\ popup = <<>>
  /\ inflight = EmptyBag
  /\ nCalls = 0
  /\ socketState = "null"
  /\ polling = FALSE
  /\ obsPending = FALSE
  /\ lastRender = [valid |-> FALSE, devices |-> <<>>, ver |-> 0, summary |-> <<>>,
                   grid |-> <<>>, popup |-> <<>>, repeat |-> FALSE]
  /\ eventVer = 0
  /\ requests = EmptyBag

\* The edge client from power-on: setup() is about to call WiFi.begin.
InitEdge ==
  /\ ViewerOff
  /\ pc = "setup"
  /\ uptime = 0
  /\ clock \in {ToU32(t) : t \in BootTimes}
  /\ wifi = "IDLE"
  /\ attemptAt = -1
  /\ lastWifiAttempt = Zero32
  /\ lastSend = Zero32
  /\ wallClock = 0
  /\ now = 0
  /\ waitStart = Zero32
  /\ stamp = <<>>
  /\ firmware \in Firmwares
  /\ latency \in Latencies
  /\ tally = NoTally

NextEdge ==
  \/ setupWiFi
  \/ IdleIterations
  \/ reconnectIfNeeded
  \/ SendNotDue
  \/ SkipTick
  \/ \E valid \in BOOLEAN : ReadTick(valid)
  \/ WaitPoll
  \/ WaitOver
  \/ FormatStamp
  \/ \E outcome \in PostOutcomes : Post(outcome)
  \/ LinkUp
  \/ LinkDown
  \/ \E epoch \in Epochs : NtpSync(epoch)

SpecEdge == InitEdge /\ [][NextEdge]_vars

\* the steps the sketch itself takes
EdgeStep ==
  \/ setupWiFi
  \/ IdleIterations
  \/ reconnectIfNeeded
  \/ SendNotDue
  \/ SkipTick
  \/ \E valid \in BOOLEAN : ReadTick(valid)
  \/ WaitPoll
  \/ WaitOver
  \/ FormatStamp
  \/ \E outcome \in PostOutcomes : Post(outcome)

\* The edge client with a processor that keeps executing the sketch and an
\* access point that answers a pending attempt that is old enough.
FairEdge ==
  /\ InitEdge
  /\ [][NextEdge]_vars
  /\ WF_vars(EdgeStep)
  /\ WF_vars(LinkUp)

\* ms until millis() wraps around, and ms since the last send tick and since
\* the last connection attempt
WrapIn == {700, 9300}
Ages   == {1200, 3700}

\* A sketch that has been running for 49.7 days: it is at the top of a call
\* of loop(), millis() is about to wrap around, the last send tick and the
\* last connection attempt are a few seconds old.
InitWrap ==
  /\ ViewerOff
  /\ pc = "loop"
  /\ uptime = 0
  /\ clock \in {U32(Half - 1, Half - k) : k \in WrapIn}
  /\ wifi \in {"CONNECTED", "IDLE"}
  /\ attemptAt = -1
  /\ lastWifiAttempt \in {Minus(clock, ToU32(a)) : a \in Ages}
  /\ lastSend \in {Minus(clock, ToU32(a)) : a \in Ages}
  /\ wallClock = 0
  /\ now = 0
  /\ waitStart = Zero32
  /\ stamp = <<>>
  /\ firmware = "part_001"
  /\ latency \in {900, NoNetwork}
  /\ tally = NoTally

\* loop() called again and again, in a network that comes and goes
NextWrap ==
  \/ IdleIterations
  \/ reconnectIfNeeded
  \/ SendNotDue
  \/ SkipTick
  \/ \E valid \in BOOLEAN : ReadTick(valid)
  \/ WaitPoll
  \/ WaitOver
  \/ FormatStamp
  \/ \E outcome \in PostOutcomes : Post(outcome)
  \/ LinkUp
  \/ LinkDown
  \/ \E epoch \in Epochs : NtpSync(epoch)

SpecWrap == InitWrap /\ [][NextWrap]_vars

\* values of millis() over its whole range
HighSamples == {0, 1, 54, 1318, 32767, 32768, 65535}
LowSamples  == {5000, 9999, 36000, 65535}

\* values time() may have before the clock has been set
UnsetTimes == {0, TIME_THRESHOLD}

\* One send tick of a sketch that has been running for any length of time:
\* it is connected, the send interval has just elapsed, the clock has not
\* been set yet.
InitStamp ==
  /\ ViewerOff
  /\ pc = "send"
  /\ uptime = 0
  /\ clock \in {U32(h, l) : h \in HighSamples, l \in LowSamples}
  /\ wifi = "CONNECTED"
  /\ attemptAt = -1
  /\ lastWifiAttempt = Zero32
  /\ lastSend = Minus(clock, ToU32(SEND_INTERVAL_MS))
  /\ wallClock \in UnsetTimes
  /\ now = 0
  /\ waitStart = Zero32
  /\ stamp = <<>>
  /\ firmware \in Firmwares
  /\ latency = 900
  /\ tally = NoTally

\* the steps of the sketch from the send block to the end of loop()
SketchStep ==
  \/ \E valid \in BOOLEAN : ReadTick(valid)
  \/ WaitPoll
  \/ WaitOver
  \/ FormatStamp
  \/ \E outcome \in PostOutcomes : Post(outcome)

NextStamp ==
  \/ SketchStep
  \/ \E epoch \in Epochs : NtpSync(epoch)

\* the processor keeps executing the sketch
SpecStamp == InitStamp /\ [][NextStamp]_vars /\ WF_vars(SketchStep)

(* ------------------------- vocabulary of the claims -------------------- *)
\* a rendered threat field is the sentinel phrase as a whole, in any letter case
LowerThreat == <<"t","h","r","e","a","t"," ","d","e","t","e","c","t","e","d">>
SentinelLabels ==
  {t \in DOMAIN CharsOf : ToLower(Trim(CharsOf[t])) = LowerThreat}
SentinelField(text) == text \in SentinelLabels

SentinelInGrid(g) == \E i \in 1..Len(g) : SentinelField(g[i].threat)

PopupShown == popup # <<>>

\* the alert surface is there exactly when a rendered field is the sentinel
Agree == PopupShown <=> SentinelInGrid(grid)

\* the page shows the collection d, whole and nothing else
ShowsCollection(s, g, d) ==
  /\ Len(g) = Len(d)
  /\ \A i \in 1..Len(g) :
        /\ g[i].id = d[i].id
        /\ g[i].threat = d[i].threat
        /\ g[i].isPowerOn = (d[i].power # 0)
  /\ s # <<>>
  /\ s[1] = Cardinality({i \in 1..Len(d) : d[i].power # 0})
  /\ s[2] = Cardinality({i \in 1..Len(d) : d[i].power = 0})
  /\ s[3] = Cardinality({i \in 1..Len(d) : d[i].threat = THREAT_DETECTED})

\* the call r of fetchAndRender ends in this step
Finishes(r) == FetchReject(r) \/ JsonReject(r) \/ JsonResolve(r)

\* the fetch of r has produced a device collection
Succeeded(r) == r.pc = "json" /\ r.body.kind = "collection"

\* a step in which scanDomForThreat runs as the last thing
ScanStep ==
  \/ ObserverCallback
  \/ ScanCall
  \/ \E r \in InFlight : JsonResolve(r) /\ Succeeded(r)

\* a step that is a call of one of the two exposed test helpers
HelperStep ==
  \/ \E msg \in HelperMsgs : TriggerThreatPopupForTest(msg)
  \/ RemoveThreatPopup

(* --------------------------------- C1 ---------------------------------- *)
\* C1: in every reachable state, whatever refreshes, scans and helper calls
\* led to it, there is at most one element 'threat-popup'.
C1_AtMostOnePopup == Len(popup) <= 1

\* a helper call has replaced the popup that a scan had created for a threat
C1_Witness ==
  /\ Len(popup) = 1
  /\ popup[1].text = SIMULATED_TEXT
  /\ lastRender.valid
  /\ lastRender.popup # <<>>
  /\ SentinelInGrid(grid)

(* --------------------------------- C2 ---------------------------------- *)
\* C2: right after any run of scanDomForThreat the popup exists if and only
\* if some rendered per-device threat field is the sentinel phrase as a whole
\* field, in any letter case; a longer text containing the phrase, a
\* 'no threat' in any case and the summary badge do not count.
C2_ScanExactMatch ==
  [][ ScanStep => (popup' # <<>> <=> SentinelInGrid(grid')) ]_vars

\* a rendered page with a longer text containing the phrase, a lower-case
\* 'no threat' and a summary badge, scanned, and no popup
C2_Witness ==
  /\ lastRender.valid
  /\ grid = lastRender.grid
  /\ \E i \in 1..Len(grid) : grid[i].threat = LongThreat
  /\ \E i \in 1..Len(grid) : grid[i].threat = LowerNoThreat
  /\ summary # <<>>
  /\ Contains(SummaryThreatText(summary), CharsOf[THREAT_DETECTED])
  /\ lastRender.popup = <<>>
  /\ popup = <<>>

(* --------------------------------- C3 ---------------------------------- *)
\* C3 as stated: between handlers the presence of the popup is a function of
\* the rendered threat fields alone.  By C2 the only function it can be is
\* 'some field is the sentinel', so the claim is that the two always agree.
C3_PresenceFunctionOfSnapshot == ~obsPending => Agree

\* C3 amended: every handler other than the two test helpers keeps the
\* agreement of popup and rendered fields, and every run of scanDomForThreat
\* establishes it, whatever the history: a step ends in disagreement only if
\* it is no scan and, when it began in agreement, is a call of a test helper.
C3_PresenceFunctionUnlessHelper ==
  [][ Agree' \/ (~ScanStep /\ (Agree => HelperStep)) ]_vars

\* after two calls of fetchAndRender, a change of the registry and a helper
\* call in between, the popup is the one of the scan and agrees with the page
C3_Witness ==
  /\ inflight = EmptyBag
  /\ nCalls >= 2
  /\ regVer > 1
  /\ lastRender.valid
  /\ lastRender.ver = regVer
  /\ PopupShown
  /\ popup[1].text = DEFAULT_TEXT
  /\ Agree

(* --------------------------------- C4 ---------------------------------- *)
\* C4: the page always shows the whole result of one fetch, namely of the
\* fetch that was rendered last, and nothing of any other fetch: never a mix,
\* also while other calls of fetchAndRender are in flight.
C4_WholeSnapshotLastWins ==
  IF lastRender.valid
  THEN ShowsCollection(summary, grid, lastRender.devices)
  ELSE summary = <<>> /\ grid = <<>>

\* one refresh has rendered while an overlapping one, which fetched an older
\* and different collection, is still to render
C4_Witness ==
  /\ lastRender.valid
  /\ grid # <<>>
  /\ \E r \in InFlight :
        /\ Succeeded(r)
        /\ r.body.ver < lastRender.ver
        /\ r.body.devices # lastRender.devices

(* --------------------------------- C5 ---------------------------------- *)
\* C5: once every call of fetchAndRender has finished, the rendered snapshot
\* is a registry state no older than the registry at the last device_update.
C5_FreshAsLastEvent ==
  (inflight = EmptyBag /\ eventVer > 0) => shownVer >= eventVer

(* --------------------------------- C6 ---------------------------------- *)
\* C6: once the socket has reported a connection error, the 3000 ms poll
\* timer is running.
C6_PollAfterConnectError == socketState = "connect_error" => polling

(* --------------------------------- C7 ---------------------------------- *)
\* C7: a call of fetchAndRender whose fetch fails (rejected fetch, body that
\* does not parse, body that is no collection) ends without changing summary,
\* grid or popup and without touching the other calls; a call whose fetch
\* succeeds renders its collection and scans, also after earlier failures.
C7_FailedFetchKeepsPage ==
  [][ \A r \in InFlight :
        /\ (FetchReject(r) \/ JsonReject(r) \/ (JsonResolve(r) /\ ~Succeeded(r)))
              => /\ UNCHANGED << summary, grid, popup >>
                 /\ inflight' = Take(inflight, r)
                 /\ ~obsPending'
        /\ (JsonResolve(r) /\ Succeeded(r))
              => /\ ShowsCollection(summary', grid', r.body.devices)
                 /\ Agree' ]_vars

\* two calls have finished while the registry never changed and the page was
\* rendered once: one fetch failed, one succeeded, and the page and the popup
\* are those of the successful one
C7_Witness ==
  /\ inflight = EmptyBag
  /\ nCalls = 2
  /\ regVer = 1
  /\ lastRender.valid
  /\ ~lastRender.repeat
  /\ grid = lastRender.grid /\ grid # <<>>
  /\ popup = lastRender.popup /\ popup # <<>>

C9_RefreshIdempotent ==
  [][ \A r \in InFlight :
        (JsonResolve(r) /\ Succeeded(r) /\ lastRender.valid
                        /\ r.body.devices = lastRender.devices)
          => /\ summary' = lastRender.summary
             /\ grid' = lastRender.grid
             /\ popup' = lastRender.popup
             /\ Len(popup') <= 1 ]_vars

\* the same collection with a threat has been rendered twice in a row
C9_Witness ==
  /\ lastRender.valid
  /\ lastRender.repeat
  /\ grid = lastRender.grid
  /\ Len(popup) = 1
  /\ SentinelInGrid(grid)

(* --------------------------------- C10 --------------------------------- *)
\* C10 as stated: every call of fetchAndRender that ends has replaced the
\* snapshot, rendered it and then scanned it.
C10_EveryCallRendersThenScans ==
  [][ \A r \in InFlight :
        Finishes(r) =>
          /\ Succeeded(r)
          /\ ShowsCollection(summary', grid', r.body.devices)
          /\ popup' = scanDomForThreat(popup, summary', grid') ]_vars

\* C10 amended: every call of fetchAndRender whose fetch produced a device
\* collection, whatever started it, ends with the snapshot replaced and
\* rendered and with the popup as a scan of that new render leaves it; a call
\* whose fetch failed ends with none of the three done.
C10_SuccessfulCallRendersThenScans ==
  [][ \A r \in InFlight :
        Finishes(r) =>
          IF Succeeded(r)
          THEN /\ ShowsCollection(summary', grid', r.body.devices)
               /\ popup' = scanDomForThreat(popup, summary', grid')
               /\ Agree'
          ELSE UNCHANGED << summary, grid, popup >> ]_vars

\* a render has just ended with a popup created by its own scan, before the
\* observer's scan has run
C10_Witness ==
  /\ obsPending
  /\ lastRender.valid
  /\ grid = lastRender.grid
  /\ popup = lastRender.popup
  /\ Len(popup) = 1
  /\ popup[1].text = DEFAULT_TEXT

(* --------------------------------- C11 --------------------------------- *)
\* C11: a user action (toggle power, delete, add device) starts no refresh
\* when its request is sent, and when its request has ended, answered or
\* not, it has started exactly one refresh.
C11_ActionThenRefresh ==
  [][ /\ \A op \in UserOps, id \in 0..MaxDevices :
           SendRequest(op, id) => nCalls' = nCalls /\ inflight' = inflight
      /\ \A q \in Requests :
           (ActionResolve(q) \/ ActionReject(q))
              => nCalls' = nCalls + 1 /\ inflight' = Put(inflight, Waiting) ]_vars

(* ----------------------- vocabulary of the edge claims ------------------ *)
\* this step calls WiFi.begin
BeginStep == attemptAt' # attemptAt

\* this step is a send tick: the send block of loop() is entered
TickStep == tally'.ticks = tally.ticks + 1

\* this step makes a submission request
PostStep == tally'.posts # tally.posts

(* --------------------------------- C12 --------------------------------- *)
\* C12: whenever WiFi.begin is called and it has been called before, at
\* least WIFI_RECONNECT_INTERVAL_MS of real time lie between the two calls.
C12_BackoffRespected ==
  [][ (BeginStep /\ attemptAt # -1)
        => uptime - attemptAt >= WIFI_RECONNECT_INTERVAL_MS ]_vars

(* --------------------------------- C13 --------------------------------- *)
\* C13: a connection attempt is given up (by the end of setupWiFi's wait or
\* by the WiFi.disconnect of the next attempt) only when it has been
\* pending for the whole connection timeout of 10000 ms.
C13_AttemptGetsFullTimeout ==
  [][ /\ (BeginStep /\ wifi = "CONNECTING")
           => uptime - attemptAt >= CONNECT_TIMEOUT_MS
      /\ (pc = "setup" /\ pc' = "loop" /\ wifi' = "CONNECTING")
           => uptime' - attemptAt' >= CONNECT_TIMEOUT_MS ]_vars

(* --------------------------------- C14 --------------------------------- *)
\* C14: a send tick evaluated without connection ends at once with only its
\* Serial line, no timestamp and no submission, and leaves the connection
\* state and the backoff timer as they were; sendSensorData is entered, and
\* so a submission is made, only from a tick evaluated with connection.
C14_OfflineTickOnlyReports ==
  [][ /\ (TickStep /\ wifi # "CONNECTED")
           => /\ pc' = "loop"
              /\ tally' = Said(Tick(tally), "WiFi not connected. Skipping.")
              /\ UNCHANGED << wifi, attemptAt, lastWifiAttempt, stamp, now, waitStart >>
      /\ (pc = "send" /\ pc' \in {"wait", "format", "post"})
           => TickStep /\ wifi = "CONNECTED"
      /\ (pc' = "post" /\ pc # "post") => pc = "format"
      /\ (pc' = "format" /\ pc # "format") => pc \in {"send", "wait"}
      /\ (pc' = "wait" /\ pc # "wait") => pc = "send"
      /\ PostStep => pc = "post" ]_vars

\* a tick has been skipped without connection after an earlier tick had
\* made its submission
C14_Witness ==
  /\ pc = "loop"
  /\ tally.last = "WiFi not connected. Skipping."
  /\ tally.ticks >= 2
  /\ tally.posts >= 1
  /\ wifi # "CONNECTED"

(* --------------------------------- C15 --------------------------------- *)
\* C15: a tick whose sensor reading is invalid ends at once: no timestamp,
\* no submission, nothing changed but lastSend, the clock and the Serial
\* line; every tick after the first comes one send period after the one
\* before it; and a tick with a valid reading goes on to its timestamp.
C15_InvalidReadingSkipsTick ==
  [][ /\ ReadTick(FALSE)
           => /\ pc' = "loop"
              /\ tally'.posts = tally.posts
              /\ lastSend' = clock
              /\ uptime' = uptime + LOOP_DELAY_MS
              /\ UNCHANGED << wifi, attemptAt, lastWifiAttempt, wallClock, now,
                              waitStart, stamp >>
      /\ (TickStep /\ tally.ticks > 0)
           => /\ ~Below(Minus(clock, lastSend), SEND_INTERVAL_MS)
              /\ Below(Minus(clock, lastSend), SEND_INTERVAL_MS + LOOP_DELAY_MS)
      /\ ReadTick(TRUE) => pc' \in {"wait", "format"} ]_vars

\* the tick before this one had an invalid reading, and this tick has read
\* the sensor, built its timestamp and is at its submission
C15_Witness ==
  /\ pc = "post"
  /\ tally.last = "DHT read failed."
  /\ tally.ticks >= 2
  /\ stamp # <<>>

(* --------------------------------- C16 --------------------------------- *)
\* C16: a step makes at most one submission request; whatever its outcome
\* the submission ends the tick, the loop goes on, and connection state,
\* backoff timer and send timer are as before; there are never more
\* submission requests than ticks.
C16_FailedSubmissionDropped ==
  [][ /\ tally'.posts <= tally.posts + 1
      /\ tally'.posts <= tally'.ticks
      /\ \A outcome \in PostOutcomes :
           Post(outcome)
             => /\ pc' = "loop"
                /\ tally'.ticks = tally.ticks
                /\ UNCHANGED << wifi, attemptAt, lastWifiAttempt, lastSend >>
      /\ (pc' = "post" /\ pc # "post") => pc = "format" ]_vars

\* the submission of the tick before failed, and this tick is at its own
\* submission
C16_Witness ==
  /\ pc = "post"
  /\ tally.last = "POST failed"
  /\ tally.ticks = 2
  /\ tally.posts = 1

(* --------------------------------- C17 --------------------------------- *)
\* a string of the shape YYYY-MM-DDTHH:MM:SS
IsoShaped(str) ==
  /\ Len(str) = 19
  /\ \A i \in 1..Len(str) :
        IF i \in {5, 8} THEN str[i] = "-"
        ELSE IF i = 11 THEN str[i] = "T"
        ELSE IF i \in {14, 17} THEN str[i] = ":"
        ELSE \E d \in 1..10 : str[i] = Digits[d]

\* C17: whichever sketch runs and whether or not the clock has been set,
\* every timestamp returned by getIsoTimestamp has the shape
\* YYYY-MM-DDTHH:MM:SS.
C17_StampIsoShaped == stamp # <<>> => IsoShaped(stamp)

(* --------------------------------- C18 --------------------------------- *)
\* the number printed as two digits at position i of a string
DigitOf(c) == (CHOOSE d \in 1..10 : Digits[d] = c) - 1
FieldOf(str, i) == DigitOf(str[i]) * 10 + DigitOf(str[i + 1])

\* C18: when the wait has ended with the clock unset, the timestamp is
\* 1970-01-01THH:MM:SS with two digits each, HH = (s / 3600) mod 24,
\* MM = (s / 60) mod 60, SS = s mod 60 for s = millis() / 1000, within
\* 0..23 and 0..59, and HH * 3600 + MM * 60 + SS = s mod 86400.
C18_FallbackFromUptime ==
  (pc = "post" /\ firmware = "part_001" /\ now <= TIME_THRESHOLD)
    => /\ IsoShaped(stamp)
       /\ SubSeq(stamp, 1, 11) = << "1","9","7","0","-","0","1","-","0","1","T" >>
       /\ LET s  == DivThousand(clock)
              hh == FieldOf(stamp, 12)
              mm == FieldOf(stamp, 15)
              ss == FieldOf(stamp, 18)
          IN  /\ hh = (s \div 3600) % 24 /\ hh \in 0..23
              /\ mm = (s \div 60) % 60 /\ mm \in 0..59
              /\ ss = s % 60 /\ ss \in 0..59
              /\ hh * 3600 + mm * 60 + ss = s % 86400

\* a fallback timestamp made after more than 2^31 ms of uptime, with an
\* hour of two digits
C18_Witness ==
  /\ pc = "post"
  /\ firmware = "part_001"
  /\ now <= TIME_THRESHOLD
  /\ clock.hi >= 32768
  /\ IsoShaped(stamp)
  /\ FieldOf(stamp, 12) >= 10

(* --------------------------------- C19 --------------------------------- *)
\* C19: the wait loop of getIsoTimestamp is entered only with the clock
\* unset, each pass sleeps 200 ms and is made only while less than 2000 ms
\* have elapsed, the loop is left as soon as the clock is set or the window
\* is over, and a tick that waits always reaches its submission.
C19_SyncWaitTerminates ==
  /\ [][ /\ pc' = "wait"
             => \/ Below(Minus(clock', waitStart'), SYNC_WAIT_MS)
                \/ Minus(clock', waitStart') = ToU32(SYNC_WAIT_MS)
         /\ (pc = "wait" /\ pc' = "wait" /\ clock' # clock)
             => /\ Below(Minus(clock, waitStart), SYNC_WAIT_MS)
                /\ Minus(clock', clock) = ToU32(SYNC_POLL_MS)
                /\ now' <= TIME_THRESHOLD
         /\ (pc = "wait" /\ pc' # "wait")
             => /\ pc' = "format"
                /\ \/ now' > TIME_THRESHOLD
                   \/ ~Below(Minus(clock', waitStart), SYNC_WAIT_MS)
         /\ (pc = "send" /\ pc' = "wait")
             => wallClock <= TIME_THRESHOLD /\ waitStart' = clock
         /\ (pc = "send" /\ wallClock > TIME_THRESHOLD) => pc' # "wait" ]_vars
  /\ (pc = "wait" ~> pc = "post")
  /\ (pc = "post" ~> pc = "loop")

\* a wait that began before the millis() counter wrapped around has lasted
\* the whole window with the clock unset, and the tick is at its submission
C19_Witness ==
  /\ pc = "post"
  /\ now <= TIME_THRESHOLD
  /\ waitStart.hi = 65535
  /\ clock.hi = 0
  /\ Minus(clock, waitStart) = ToU32(SYNC_WAIT_MS)

(* --------------------------------- C20 --------------------------------- *)
\* ms within which a lost connection is back when every attempt is given
\* the connection timeout: a tick in progress, the backoff, the timeout
RecoveryTime ==
  SYNC_WAIT_MS + POST_MS + LOOP_DELAY_MS + LOOP_DELAY_MS
  + WIFI_RECONNECT_INTERVAL_MS + CONNECT_TIMEOUT_MS

C21_ScanTouchesOnlyPopup ==
  /\ [][ (ObserverCallback \/ ScanCall)
            => /\ UNCHANGED << summary, grid, registry, regVer, inflight, nCalls,
                               lastRender >>
               /\ popup' = scanDomForThreat(popup, summary, grid)
               /\ ~obsPending' ]_vars
  /\ [][ (~obsPending /\ obsPending') => \E r \in InFlight : JsonResolve(r) ]_vars
  /\ obsPending ~> ~obsPending

\* the observer has scanned a rendered grid with a card that says
\* "Threat Detected": the popup is up and no notification is queued
C21_Witness ==
  /\ lastRender.valid
  /\ grid # <<>>
  /\ existsThreatDetectedInCards(summary, grid)
  /\ popup # <<>>
  /\ ~obsPending

(* --------------------------------- C22 --------------------------------- *)
\* C22: with millis() wrapping around, a send tick happens only when at
\* least SEND_INTERVAL_MS of real time have passed since the last one, and
\* no call of loop() goes by without a tick once they have; a connection
\* attempt is made from the loop only when at least
\* WIFI_RECONNECT_INTERVAL_MS have passed since the last one, and no call of
\* loop() without connection goes by without an attempt once they have.
C22_IntervalsAcrossWrap ==
  [][ /\ (TickStep /\ tally.at # -1)
          => uptime - tally.at >= SEND_INTERVAL_MS
      /\ (~TickStep /\ pc \in {"loop", "send"} /\ clock' # clock /\ tally.at # -1)
          => uptime - tally.at < SEND_INTERVAL_MS
      /\ (BeginStep /\ attemptAt # -1)
          => uptime - attemptAt >= WIFI_RECONNECT_INTERVAL_MS
      /\ (pc = "loop" /\ clock' # clock /\ wifi # "CONNECTED" /\ attemptAt # -1)
          => uptime - attemptAt < WIFI_RECONNECT_INTERVAL_MS ]_vars

\* millis() has wrapped around; the last send tick and the last connection
\* attempt happened after the wrap, each less than its interval after it,
\* so the tick and the attempt before them happened before the wrap
C22_Witness ==
  /\ clock.hi = 0
  /\ tally.ticks >= 2
  /\ lastSend.hi = 0 /\ lastSend.lo < SEND_INTERVAL_MS
  /\ uptime - tally.at = Minus(clock, lastSend).lo
  /\ wifi # "CONNECTED"
  /\ lastWifiAttempt.hi = 0 /\ lastWifiAttempt.lo < WIFI_RECONNECT_INTERVAL_MS
  /\ attemptAt > WIFI_RECONNECT_INTERVAL_MS

====
